---------------------------- MODULE Spec2Model ----------------------------
(* A model of my-redis (src/src/main.rs): the Connection read path            *)
(* (read_frame / parse_frame over mini_redis' Frame::check and Frame::parse), *)
(* the write path (write_frame over a BufWriter), and the per-connection      *)
(* process loop over the shared, mutex-guarded store.                         *)
(*                                                                            *)
(* Bytes are numbers 0..255, a buffer is a sequence of bytes, and a cursor    *)
(* position is 0-based as in std::io::Cursor: the byte at position p of buf   *)
(* is buf[p + 1].                                                             *)
EXTENDS Integers, Sequences, FiniteSets, TLC

\* ------------------------------------------------------------------ bytes
CR == 13
LF == 10
PLUS == 43
MINUS == 45
COLON == 58
DOLLAR == 36
STAR == 42
ZERO == 48

CRLF == <<CR, LF>>
Digits == ZERO .. (ZERO + 9)

\* "get", "set", "del" in lower case, "GET" in upper case, and one-byte keys
\* and values
GetName == <<103, 101, 116>>
SetName == <<115, 101, 116>>
DelName == <<100, 101, 108>>
GetUpper == <<71, 69, 84>>
KeyA == <<97>>
KeyB == <<98>>
ValX == <<120>>
ValY == <<121>>
OkText == <<79, 75>>

\* ----------------------------------------------------------------- frames
\* mini_redis::Frame, a tagged union
Simple(s) == [t |-> "Simple", v |-> s]
Error(s) == [t |-> "Error", v |-> s]
Integer(n) == [t |-> "Integer", v |-> n]
Bulk(b) == [t |-> "Bulk", v |-> b]
Null == [t |-> "Null", v |-> <<>>]
Array(a) == [t |-> "Array", v |-> a]

\* ------------------------------------------------- results of the parser
Ok(p, f) == [r |-> "ok", pos |-> p, f |-> f]
Incomplete == [r |-> "incomplete"]
Err(m) == [r |-> "error", msg |-> m]

InvalidFormat == "protocol error; invalid frame format"
InvalidType == "protocol error; invalid frame type byte"
ResetByPeer == "connection reset by peer"

\* ------------------------------------------------------ decimal text
\* A u64 is kept in two limbs, hi * Limb + lo with 0 <= lo < Limb, so that
\* values of more than nine digits stay within the numbers of the checker.
Limb == 100000000
LimbDigits == 8

\* the largest hi the parser builds; a text whose value goes beyond it
\* overflows
MaxHi == 100000000

U64(hi, lo) == [hi |-> hi, lo |-> lo]

\* the u64 of a number below Limb
Small(n) == U64(0, n)

RECURSIVE Dec(_)
\* the decimal text of a number below Limb, as format!("{}", n) writes it
Dec(n) == IF n < 10 THEN <<ZERO + n>> ELSE Dec(n \div 10) \o <<ZERO + (n % 10)>>

RECURSIVE Zeros(_)
Zeros(k) == IF k <= 0 THEN <<>> ELSE <<ZERO>> \o Zeros(k - 1)

\* the decimal text of a u64, as format!("{}", n) writes it
DecU64(w) ==
    IF w.hi = 0 THEN Dec(w.lo)
    ELSE Dec(w.hi) \o Zeros(LimbDigits - Len(Dec(w.lo))) \o Dec(w.lo)

NoNumber == U64(-1, 0)

RECURSIVE AtoiFrom(_, _, _)
\* the value of the digits of line from index i on, acc being the value so
\* far; NoNumber on overflow
AtoiFrom(line, i, acc) ==
    IF i <= Len(line) /\ line[i] \in Digits
    THEN LET lo10 == acc.lo * 10 + (line[i] - ZERO)
             hi10 == acc.hi * 10 + (lo10 \div Limb)
         IN  IF hi10 > MaxHi THEN NoNumber
             ELSE AtoiFrom(line, i + 1, U64(hi10, lo10 % Limb))
    ELSE acc

\* atoi::<u64>: the value of the leading digits of line; NoNumber stands for
\* None (no leading digit, so also a sign, or overflow)
Atoi(line) ==
    IF Len(line) >= 1 /\ line[1] \in Digits THEN AtoiFrom(line, 1, Small(0)) ELSE NoNumber

\* a u64 as a count of bytes or frames; a count of Limb or more is beyond
\* every buffer of the model
AsLen(w) == IF w.hi = 0 THEN w.lo ELSE Limb

\* ------------------------------------------- cursor primitives (spec 4.2)
GetU8(buf, pos) == IF pos >= Len(buf) THEN Incomplete ELSE Ok(pos + 1, buf[pos + 1])

PeekU8(buf, pos) == IF pos >= Len(buf) THEN Incomplete ELSE Ok(pos, buf[pos + 1])

Skip(buf, pos, n) == IF Len(buf) - pos < n THEN Incomplete ELSE Ok(pos + n, <<>>)

\* the positions i >= pos with CR at i and LF at i + 1
LineEnds(buf, pos) ==
    {i \in pos .. (Len(buf) - 2) : buf[i + 1] = CR /\ buf[i + 2] = LF}

Least(S) == CHOOSE x \in S : \A y \in S : x <= y

GetLine(buf, pos) ==
    IF LineEnds(buf, pos) = {}
    THEN Incomplete
    ELSE LET i == Least(LineEnds(buf, pos))
         IN  Ok(i + 2, SubSeq(buf, pos + 1, i))

GetDecimal(buf, pos) ==
    LET l == GetLine(buf, pos)
    IN  IF l.r # "ok" THEN l
        ELSE IF Atoi(l.f) = NoNumber THEN Err(InvalidFormat)
        ELSE Ok(l.pos, Atoi(l.f))

\* ------------------------------------------------------- Frame::check
RECURSIVE Check(_, _)
RECURSIVE CheckN(_, _, _)
\* n frames in a row from pos on
CheckN(buf, pos, n) ==
    IF n = 0 THEN Ok(pos, <<>>)
    ELSE LET c == Check(buf, pos)
         IN  IF c.r # "ok" THEN c ELSE CheckN(buf, c.pos, n - 1)

CheckBulk(buf, pos) ==
    LET p == PeekU8(buf, pos)
    IN  IF p.r # "ok" THEN p
        ELSE IF p.f = MINUS THEN Skip(buf, pos, 4)
        ELSE LET d == GetDecimal(buf, pos)
             IN  IF d.r # "ok" THEN d ELSE Skip(buf, d.pos, AsLen(d.f) + 2)

CheckArray(buf, pos) ==
    LET d == GetDecimal(buf, pos)
    IN  IF d.r # "ok" THEN d ELSE CheckN(buf, d.pos, AsLen(d.f))

Check(buf, pos) ==
    LET b == GetU8(buf, pos)
    IN  IF b.r # "ok" THEN b
        ELSE IF b.f \in {PLUS, MINUS}
        THEN LET l == GetLine(buf, b.pos)
             IN  IF l.r # "ok" THEN l ELSE Ok(l.pos, <<>>)
        ELSE IF b.f = COLON
        THEN LET d == GetDecimal(buf, b.pos)
             IN  IF d.r # "ok" THEN d ELSE Ok(d.pos, <<>>)
        ELSE IF b.f = DOLLAR THEN CheckBulk(buf, b.pos)
        ELSE IF b.f = STAR THEN CheckArray(buf, b.pos)
        ELSE Err(InvalidType)

\* ------------------------------------------------------- Frame::parse
RECURSIVE Parse(_, _)
RECURSIVE ParseN(_, _, _, _)
\* n frames in a row from pos on, appended to acc
ParseN(buf, pos, n, acc) ==
    IF n = 0 THEN Ok(pos, Array(acc))
    ELSE LET p == Parse(buf, pos)
         IN  IF p.r # "ok" THEN p ELSE ParseN(buf, p.pos, n - 1, Append(acc, p.f))

ParseBulk(buf, pos) ==
    LET p == PeekU8(buf, pos)
    IN  IF p.r # "ok" THEN p
        ELSE IF p.f = MINUS
        THEN LET l == GetLine(buf, pos)
             IN  IF l.r # "ok" THEN l
                 ELSE IF l.f # <<MINUS, ZERO + 1>> THEN Err(InvalidFormat)
                 ELSE Ok(l.pos, Null)
        ELSE LET d == GetDecimal(buf, pos)
             IN  IF d.r # "ok" THEN d
                 ELSE IF Len(buf) - d.pos < AsLen(d.f) + 2 THEN Incomplete
                 ELSE Ok(d.pos + AsLen(d.f) + 2,
                         Bulk(SubSeq(buf, d.pos + 1, d.pos + AsLen(d.f))))

ParseArray(buf, pos) ==
    LET d == GetDecimal(buf, pos)
    IN  IF d.r # "ok" THEN d ELSE ParseN(buf, d.pos, AsLen(d.f), <<>>)

Parse(buf, pos) ==
    LET b == GetU8(buf, pos)
    IN  IF b.r # "ok" THEN b
        ELSE IF b.f = PLUS
        THEN LET l == GetLine(buf, b.pos)
             IN  IF l.r # "ok" THEN l ELSE Ok(l.pos, Simple(l.f))
        ELSE IF b.f = MINUS
        THEN LET l == GetLine(buf, b.pos)
             IN  IF l.r # "ok" THEN l ELSE Ok(l.pos, Error(l.f))
        ELSE IF b.f = COLON
        THEN LET d == GetDecimal(buf, b.pos)
             IN  IF d.r # "ok" THEN d ELSE Ok(d.pos, Integer(d.f))
        ELSE IF b.f = DOLLAR THEN ParseBulk(buf, b.pos)
        ELSE IF b.f = STAR THEN ParseArray(buf, b.pos)
        ELSE Err(InvalidType)

\* --------------------------------------------- the peer's encoding (spec 6)
RECURSIVE Encode(_)
RECURSIVE EncodeAll(_)
\* the encodings of the frames of fs, one after the other
EncodeAll(fs) == IF fs = <<>> THEN <<>> ELSE Encode(Head(fs)) \o EncodeAll(Tail(fs))

Encode(f) ==
    CASE f.t = "Simple" -> <<PLUS>> \o f.v \o CRLF
      [] f.t = "Error" -> <<MINUS>> \o f.v \o CRLF
      [] f.t = "Integer" -> <<COLON>> \o DecU64(f.v) \o CRLF
      [] f.t = "Null" -> <<DOLLAR, MINUS, ZERO + 1>> \o CRLF
      [] f.t = "Bulk" -> <<DOLLAR>> \o Dec(Len(f.v)) \o CRLF \o f.v \o CRLF
      [] f.t = "Array" -> <<STAR>> \o Dec(Len(f.v)) \o CRLF \o EncodeAll(f.v)


\* ------------------------------------------------------------- bounds
\* frames per stream in the framing specification
MaxFrames == 2

\* --------------------------------------------------------------- state
Conns == {"c1", "c2"}

VARIABLES
    pc,         \* per connection: where its task is
    buffer,     \* per connection: Connection.buffer, the bytes read and not yet consumed
    sock,       \* per connection: the bytes the peer sends that no read has returned yet
    closed,     \* per connection: the peer has closed its end
    delivered,  \* per connection: how many bytes the socket reads have returned so far
    script,     \* per connection: the encodings the peer sends, one entry per frame
    ret,        \* per connection: what the last read_frame returned
    got,        \* per connection: the frames read_frame has returned to its caller
    partial,    \* per connection: this read_frame call has waited on a part of a frame
    cmd,        \* per connection: the command being served
    response,   \* per connection: the response frame of the command being served
    mark,       \* per connection: the length of hist when its command touched the store
    replies,    \* per connection: the frames handed to write_frame so far
    wbuf,       \* per connection: the bytes held in the BufWriter
    out,        \* per connection: the bytes written to the socket
    broken,     \* per connection: a write to the socket has failed
    db,         \* the store: key -> value, NoValue when the key is absent
    lock,       \* the connection that holds the store's mutex, NoOne when free
    poisoned,   \* the mutex is poisoned
    hist,       \* the inserts applied to the store, in order
    listening   \* main is in its accept loop

connVars == <<cmd, response, mark, replies, wbuf, out, broken>>
storeVars == <<db, lock, poisoned, hist>>
readVars == <<pc, buffer, sock, closed, delivered, script, ret, got, partial>>
vars == <<pc, buffer, sock, closed, delivered, script, ret, got, partial,
          cmd, response, mark, replies, wbuf, out, broken, db, lock, poisoned, hist,
          listening>>

NoOne == "nobody"
NoValue == <<0>>
NoCmd == [k |-> "none"]
Keys == {KeyA, KeyB}

\* Result<Option<Frame>>
RSome(f) == [k |-> "some", f |-> f]
RNone == [k |-> "none"]
RErr(m) == [k |-> "err", msg |-> m]
NoRet == [k |-> "pending"]

EndedEarly == "stream ended early"

\* ------------------------------------------- Connection::parse_frame
\* a parse_frame that empties the buffer when it returns a frame
ParseFrameClears(buf) ==
    LET c == Check(buf, 0)
    IN  IF c.r = "ok"
        THEN LET p == Parse(buf, 0)
             IN  IF p.r = "ok"
                 THEN [res |-> RSome(p.f), buf |-> <<>>]
                 ELSE [res |-> RErr(IF p.r = "incomplete" THEN EndedEarly ELSE p.msg),
                       buf |-> buf]
        ELSE IF c.r = "incomplete" THEN [res |-> RNone, buf |-> buf]
        ELSE [res |-> RErr(c.msg), buf |-> buf]

\* a parse_frame that leaves the frame it returns in the buffer
ParseFrameKeeps(buf) ==
    LET c == Check(buf, 0)
    IN  IF c.r = "ok"
        THEN LET p == Parse(buf, 0)
             IN  IF p.r = "ok"
                 THEN [res |-> RSome(p.f), buf |-> buf]
                 ELSE [res |-> RErr(IF p.r = "incomplete" THEN EndedEarly ELSE p.msg),
                       buf |-> buf]
        ELSE IF c.r = "incomplete" THEN [res |-> RNone, buf |-> buf]
        ELSE [res |-> RErr(c.msg), buf |-> buf]

\* the result and the buffer it leaves
ParseFrame(buf) ==
    LET c == Check(buf, 0)
    IN  IF c.r = "ok"
        THEN LET p == Parse(buf, 0)
             IN  IF p.r = "ok"
                 THEN [res |-> RSome(p.f), buf |-> SubSeq(buf, c.pos + 1, Len(buf))]
                 ELSE [res |-> RErr(IF p.r = "incomplete" THEN EndedEarly ELSE p.msg),
                       buf |-> buf]
        ELSE IF c.r = "incomplete" THEN [res |-> RNone, buf |-> buf]
        ELSE [res |-> RErr(c.msg), buf |-> buf]

\* ------------------------------------------------- ghost predicates
RECURSIVE SumLen(_, _)
\* the length of the first k entries of ss together
SumLen(ss, k) == IF k = 0 THEN 0 ELSE SumLen(ss, k - 1) + Len(ss[k])

\* the byte counts at which a frame of the peer's stream ends
Boundaries(c) == {SumLen(script[c], k) : k \in 0 .. Len(script[c])}

\* how many whole frames the reads have returned the bytes of
FramesDelivered(c) ==
    Cardinality({k \in 1 .. Len(script[c]) : SumLen(script[c], k) <= delivered[c]})

\* how many frames the reads have returned a byte of
FramesStarted(c) ==
    Cardinality({k \in 1 .. Len(script[c]) : SumLen(script[c], k - 1) < delivered[c]})

AtBoundary(c) == delivered[c] \in Boundaries(c)

\* -------------------------------------------- Connection::read_frame
\* One turn of the loop on the buffer buf: what parse_frame finds is what
\* read_frame returns, and with no complete frame in the buffer the task goes
\* on to the socket read (ret stays pending).
ReadFrameLoop(c, buf) ==
    LET r == ParseFrame(buf)
    IN  /\ buffer' = [buffer EXCEPT ![c] = r.buf]
        /\ ret' = [ret EXCEPT ![c] = IF r.res.k = "none" THEN NoRet ELSE r.res]
        /\ partial' = [partial EXCEPT ![c] =
                          IF r.res.k = "none" THEN buf # <<>>
                          ELSE pc[c] = "socket_read" /\ @]

\* a read that overwrites the buffer with the chunk
ReceivedOverwrites(buf, chunk) == chunk

\* the buffer after a socket read has appended the chunk it returns
Received(buf, chunk) == buf \o chunk

\* read_frame is called: the first turn of the loop
CallStep(c) ==
    /\ listening
    /\ pc[c] = "call"
    /\ ReadFrameLoop(c, buffer[c])
    /\ UNCHANGED <<sock, closed, delivered, script>>

\* the socket read returns the next n > 0 bytes, and the loop turns again
ReadStep(c, n) ==
    /\ listening
    /\ pc[c] = "socket_read"
    /\ n \in 1 .. Len(sock[c])
    /\ sock' = [sock EXCEPT ![c] = SubSeq(sock[c], n + 1, Len(sock[c]))]
    /\ delivered' = [delivered EXCEPT ![c] = @ + n]
    /\ ReadFrameLoop(c, Received(buffer[c], SubSeq(sock[c], 1, n)))
    /\ UNCHANGED <<closed, script>>

\* every end of stream taken for a clean one
AtEofAlwaysClean(buf) == RNone

\* every end of stream taken for a reset
AtEofAlwaysReset(buf) == RErr(ResetByPeer)

\* what read_frame returns when the socket read returns 0
AtEof(buf) == IF buf = <<>> THEN RNone ELSE RErr(ResetByPeer)

\* The socket read returns 0: the peer has closed, having sent no more than
\* the reads have returned. What it had not sent is never sent, and the frames
\* it had not begun to send leave its script.
EofStep(c) ==
    /\ listening
    /\ pc[c] = "socket_read"
    /\ ~closed[c]
    /\ closed' = [closed EXCEPT ![c] = TRUE]
    /\ sock' = [sock EXCEPT ![c] = <<>>]
    /\ script' = [script EXCEPT ![c] = SubSeq(@, 1, FramesStarted(c))]
    /\ ret' = [ret EXCEPT ![c] = AtEof(buffer[c])]
    /\ UNCHANGED <<buffer, delivered, partial>>

\* ------------------------------------- the framing specification
\* A caller that calls read_frame until it returns None or an error, on one
\* connection whose peer sends up to MaxFrames valid frames, split into chunks
\* in every way.
FramePool ==
    { Simple(OkText), Error(<<69>>), Integer(Small(10)), Bulk(CRLF), Bulk(<<>>), Null,
      Array(<<Bulk(KeyA), Integer(Small(1))>>) }

RECURSIVE SeqsUpTo(_, _)
\* the sequences over S of length at most n
SeqsUpTo(S, n) ==
    IF n = 0 THEN {<<>>}
    ELSE LET shorter == SeqsUpTo(S, n - 1)
         IN  shorter \cup {Append(s, x) : s \in shorter, x \in S}

RECURSIVE Flatten(_)
Flatten(ss) == IF ss = <<>> THEN <<>> ELSE Head(ss) \o Flatten(Tail(ss))

FrameStreams == SeqsUpTo({Encode(f) : f \in FramePool}, MaxFrames)

\* the state of a server that has accepted no connection yet
InitRest ==
    /\ buffer = [c \in Conns |-> <<>>]
    /\ closed = [c \in Conns |-> FALSE]
    /\ delivered = [c \in Conns |-> 0]
    /\ ret = [c \in Conns |-> NoRet]
    /\ got = [c \in Conns |-> <<>>]
    /\ partial = [c \in Conns |-> FALSE]
    /\ cmd = [c \in Conns |-> NoCmd]
    /\ response = [c \in Conns |-> Null]
    /\ mark = [c \in Conns |-> 0]
    /\ replies = [c \in Conns |-> <<>>]
    /\ wbuf = [c \in Conns |-> <<>>]
    /\ out = [c \in Conns |-> <<>>]
    /\ broken = [c \in Conns |-> FALSE]
    /\ db = [k \in Keys |-> NoValue]
    /\ lock = NoOne
    /\ poisoned = FALSE
    /\ hist = <<>>
    /\ listening = TRUE

InitFrame ==
    /\ \E s \in FrameStreams : script = [c \in Conns |-> IF c = "c1" THEN s ELSE <<>>]
    /\ sock = [c \in Conns |-> Flatten(script[c])]
    /\ pc = [c \in Conns |-> IF c = "c1" THEN "call" ELSE "unaccepted"]
    /\ InitRest

\* read_frame returns to its caller, or waits at the socket read
ToCaller(c) ==
    /\ pc' = [pc EXCEPT ![c] = IF ret'[c] = NoRet THEN "socket_read" ELSE "returned"]
    /\ UNCHANGED <<got, connVars, storeVars, listening>>

CallReadFrame(c) == CallStep(c) /\ ToCaller(c)

\* a socket read that returns any non-empty part of what the peer sends
SocketRead(c) == \E n \in 1 .. Len(sock[c]) : ReadStep(c, n) /\ ToCaller(c)

SocketEof(c) == EofStep(c) /\ ToCaller(c)

\* the caller takes the frame and calls again, or stops at None or an error
Caller(c) ==
    /\ pc[c] = "returned"
    /\ IF ret[c].k = "some"
       THEN /\ got' = [got EXCEPT ![c] = Append(@, ret[c].f)]
            /\ pc' = [pc EXCEPT ![c] = "call"]
       ELSE /\ got' = got
            /\ pc' = [pc EXCEPT ![c] = "finished"]
    /\ UNCHANGED <<buffer, sock, closed, delivered, script, ret, partial, connVars,
                   storeVars, listening>>

NextFrame ==
    \E c \in Conns :
        \/ CallReadFrame(c)
        \/ SocketRead(c)
        \/ SocketEof(c)
        \/ Caller(c)

SpecFrame == InitFrame /\ [][NextFrame]_vars

\* ------------------------------------------- Command::from_frame
ToLower(b) == IF b \in 65 .. 90 THEN b + 32 ELSE b

Lower(bs) == [i \in 1 .. Len(bs) |-> ToLower(bs[i])]

\* a frame that Parse::next_string and Parse::next_bytes accept
IsText(f) == f.t \in {"Simple", "Bulk"}

CmdGet(key) == [k |-> "get", key |-> key, val |-> <<>>]
CmdSet(key, val) == [k |-> "set", key |-> key, val |-> val]
CmdUnknown == [k |-> "unknown", key |-> <<>>, val |-> <<>>]
CmdError == [k |-> "error", key |-> <<>>, val |-> <<>>]

\* an Array of texts whose first element names the command; "get" takes
\* exactly one argument and "set" exactly two
FromFrame(f) ==
    IF f.t # "Array" \/ Len(f.v) = 0 THEN CmdError
    ELSE IF \E i \in 1 .. Len(f.v) : ~IsText(f.v[i]) THEN CmdError
    ELSE LET name == Lower(f.v[1].v)
             args == Tail(f.v)
         IN  IF name = GetName
             THEN IF Len(args) = 1 THEN CmdGet(args[1].v) ELSE CmdError
             ELSE IF name = SetName
             THEN IF Len(args) = 2 THEN CmdSet(args[1].v, args[2].v) ELSE CmdError
             ELSE CmdUnknown

\* ------------------------------------------ Connection::write_frame
DecimalBuf == 12

\* a write_decimal that emits the digits that fit
WriteDecimalTruncates(n) ==
    [r |-> "ok",
     bytes |-> SubSeq(DecU64(n), 1, IF Len(DecU64(n)) > DecimalBuf THEN DecimalBuf
                                     ELSE Len(DecU64(n))) \o CRLF]

\* write_decimal: the digits and CRLF, or an error when the digits do not fit
WriteDecimal(n) ==
    IF Len(DecU64(n)) > DecimalBuf
    THEN [r |-> "error", bytes |-> <<>>]
    ELSE [r |-> "ok", bytes |-> DecU64(n) \o CRLF]

\* a write_frame that writes the header of an array before it gives up
WriteFrameArrayHeader(f) ==
    CASE f.t = "Simple" -> [r |-> "ok", bytes |-> <<PLUS>> \o f.v \o CRLF]
      [] f.t = "Error" -> [r |-> "ok", bytes |-> <<MINUS>> \o f.v \o CRLF]
      [] f.t = "Integer" ->
            [r |-> WriteDecimal(f.v).r, bytes |-> <<COLON>> \o WriteDecimal(f.v).bytes]
      [] f.t = "Null" -> [r |-> "ok", bytes |-> <<DOLLAR, MINUS, ZERO + 1>> \o CRLF]
      [] f.t = "Bulk" ->
            [r |-> "ok",
             bytes |-> <<DOLLAR>> \o WriteDecimal(Small(Len(f.v))).bytes \o f.v \o CRLF]
      [] f.t = "Array" ->
            [r |-> "ok", bytes |-> <<STAR>> \o WriteDecimal(Small(Len(f.v))).bytes]

\* the bytes write_frame hands to the BufWriter before it flushes, and whether
\* it goes on to the flush ("ok"), returns an error or panics
WriteFrame(f) ==
    CASE f.t = "Simple" -> [r |-> "ok", bytes |-> <<PLUS>> \o f.v \o CRLF]
      [] f.t = "Error" -> [r |-> "ok", bytes |-> <<MINUS>> \o f.v \o CRLF]
      [] f.t = "Integer" ->
            [r |-> WriteDecimal(f.v).r, bytes |-> <<COLON>> \o WriteDecimal(f.v).bytes]
      [] f.t = "Null" -> [r |-> "ok", bytes |-> <<DOLLAR, MINUS, ZERO + 1>> \o CRLF]
      [] f.t = "Bulk" ->
            IF WriteDecimal(Small(Len(f.v))).r = "ok"
            THEN [r |-> "ok",
                  bytes |-> <<DOLLAR>> \o WriteDecimal(Small(Len(f.v))).bytes \o f.v \o CRLF]
            ELSE [r |-> "error", bytes |-> <<DOLLAR>>]
      [] f.t = "Array" -> [r |-> "panic", bytes |-> <<>>]

\* ------------------------------------------------------ main, process
\* requests sent to the server, over all connections
MaxReqs == 3

\* bytes per network segment in the server specification
MaxRead == 16

Request(fs) == Encode(Array(fs))

\* what a peer may send: well-formed gets and sets, wrong arities, a command
\* that is neither get nor set, and malformed requests
GoodRequests ==
    { Request(<<Bulk(SetName), Bulk(KeyA), Bulk(ValX)>>),
      Request(<<Bulk(SetName), Bulk(KeyA), Bulk(ValY)>>),
      Request(<<Bulk(GetUpper), Bulk(KeyA)>>),
      Request(<<Bulk(GetName), Bulk(KeyB)>>) }

ArityRequests ==
    { Request(<<Bulk(GetName)>>),
      Request(<<Bulk(GetName), Bulk(KeyA), Bulk(KeyA)>>),
      Request(<<Bulk(SetName)>>),
      Request(<<Bulk(SetName), Bulk(KeyA)>>),
      Request(<<Bulk(SetName), Bulk(KeyA), Bulk(ValX), Bulk(ValY)>>) }

UnknownRequests == { Request(<<Bulk(DelName), Bulk(KeyA)>>) }

\* a frame that is no array, and an invalid type byte ahead of a well-formed get
MalformedRequests ==
    { Encode(Simple(OkText)), <<33>> \o Request(<<Bulk(GetName), Bulk(KeyA)>>) }

ReqPool == GoodRequests \cup ArityRequests \cup UnknownRequests \cup MalformedRequests

Init ==
    /\ script = [c \in Conns |-> <<>>]
    /\ sock = [c \in Conns |-> <<>>]
    /\ pc = [c \in Conns |-> "unaccepted"]
    /\ InitRest

\* a panic that takes the whole process down with it
PanicAborts(c) ==
    /\ pc' = [d \in Conns |-> IF pc[d] = "unaccepted" THEN pc[d] ELSE "panicked"]
    /\ poisoned' = (poisoned \/ lock = c)
    /\ lock' = IF lock = c THEN NoOne ELSE lock

\* the task panics: its stack unwinds, and a mutex guard it holds is dropped
\* by the unwinding, which poisons the mutex
Panic(c) ==
    /\ pc' = [pc EXCEPT ![c] = "panicked"]
    /\ poisoned' = (poisoned \/ lock = c)
    /\ lock' = IF lock = c THEN NoOne ELSE lock

\* main accepts a connection and spawns process for it
Accept(c) ==
    /\ listening
    /\ pc[c] = "unaccepted"
    /\ pc' = [pc EXCEPT ![c] = "call"]
    /\ UNCHANGED <<buffer, sock, closed, delivered, script, ret, got, partial, connVars,
                   storeVars, listening>>

\* accept fails: main panics on the unwrap and the server process ends
AcceptErr(c) ==
    /\ listening
    /\ pc[c] = "unaccepted"
    /\ listening' = FALSE
    /\ UNCHANGED <<readVars, connVars, storeVars>>

RECURSIVE Total(_, _)
\* the sum of n[c] over the connections of S
Total(n, S) ==
    IF S = {} THEN 0
    ELSE LET c == CHOOSE x \in S : TRUE IN n[c] + Total(n, S \ {c})

\* the requests sent so far
Sent == Total([c \in Conns |-> Len(script[c])], Conns)

\* The peer sends its next request, over a socket that has not failed. The
\* task sees the bytes only in a socket read, so the send is taken while it
\* waits at one.
PeerSend(c) ==
    /\ listening
    /\ pc[c] = "socket_read"
    /\ ~closed[c]
    /\ ~broken[c]
    /\ sock[c] = <<>>
    /\ Sent < MaxReqs
    /\ \E req \in ReqPool :
        /\ sock' = [sock EXCEPT ![c] = req]
        /\ script' = [script EXCEPT ![c] = Append(@, req)]
    /\ UNCHANGED <<pc, buffer, closed, delivered, ret, got, partial, connVars, storeVars,
                   listening>>

\* a loop that serves what from_frame rejects as a set of no value
DispatchUnchecked(c, r) ==
    IF r.k = "err"
    THEN Panic(c) /\ UNCHANGED <<got, cmd>>
    ELSE IF r.k = "none"
    THEN /\ pc' = [pc EXCEPT ![c] = "done"]
         /\ UNCHANGED <<got, cmd, lock, poisoned>>
    ELSE /\ got' = [got EXCEPT ![c] = Append(@, r.f)]
         /\ cmd' = [cmd EXCEPT ![c] = IF FromFrame(r.f).k \in {"get", "set"}
                                       THEN FromFrame(r.f) ELSE CmdSet(KeyA, <<>>)]
         /\ pc' = [pc EXCEPT ![c] = "lock"]
         /\ UNCHANGED <<lock, poisoned>>

\* a loop that skips what from_frame rejects and reads on
DispatchSkips(c, r) ==
    IF r.k = "err"
    THEN Panic(c) /\ UNCHANGED <<got, cmd>>
    ELSE IF r.k = "none"
    THEN /\ pc' = [pc EXCEPT ![c] = "done"]
         /\ UNCHANGED <<got, cmd, lock, poisoned>>
    ELSE /\ got' = [got EXCEPT ![c] = Append(@, r.f)]
         /\ IF FromFrame(r.f).k \in {"get", "set"}
            THEN /\ cmd' = [cmd EXCEPT ![c] = FromFrame(r.f)]
                 /\ pc' = [pc EXCEPT ![c] = "lock"]
            ELSE /\ cmd' = cmd
                 /\ pc' = [pc EXCEPT ![c] = "call"]
         /\ UNCHANGED <<lock, poisoned>>

\* The head of the loop of process, on what read_frame returns: an error
\* panics on the unwrap, None ends the loop, and a frame goes through
\* from_frame, which panics on an error and on a command that is neither Get
\* nor Set.
Dispatch(c, r) ==
    IF r.k = "err"
    THEN Panic(c) /\ UNCHANGED <<got, cmd>>
    ELSE IF r.k = "none"
    THEN /\ pc' = [pc EXCEPT ![c] = "done"]
         /\ UNCHANGED <<got, cmd, lock, poisoned>>
    ELSE /\ got' = [got EXCEPT ![c] = Append(@, r.f)]
         /\ IF FromFrame(r.f).k \in {"get", "set"}
            THEN /\ cmd' = [cmd EXCEPT ![c] = FromFrame(r.f)]
                 /\ pc' = [pc EXCEPT ![c] = "lock"]
                 /\ UNCHANGED <<lock, poisoned>>
            ELSE Panic(c) /\ UNCHANGED cmd

\* read_frame returns to process, or waits at the socket read
ToProcess(c) ==
    /\ IF ret'[c] = NoRet
       THEN /\ pc' = [pc EXCEPT ![c] = "socket_read"]
            /\ UNCHANGED <<got, cmd, lock, poisoned>>
       ELSE Dispatch(c, ret'[c])
    /\ UNCHANGED <<response, mark, replies, wbuf, out, broken, db, hist, listening>>

\* process calls read_frame
ProcessCall(c) == CallStep(c) /\ ToProcess(c)

\* the socket read returns the next segment of MaxRead bytes, or what is left
ProcessRead(c) ==
    /\ sock[c] # <<>>
    /\ ReadStep(c, IF Len(sock[c]) < MaxRead THEN Len(sock[c]) ELSE MaxRead)
    /\ ToProcess(c)

\* the socket read returns 0
ProcessEof(c) == ~broken[c] /\ EofStep(c) /\ ToProcess(c)

\* the socket read fails
ProcessReadErr(c) ==
    /\ listening
    /\ pc[c] = "socket_read"
    /\ ret' = [ret EXCEPT ![c] = RErr("io")]
    /\ UNCHANGED <<buffer, sock, closed, delivered, script, partial>>
    /\ ToProcess(c)

\* db.lock().unwrap(): the task takes the mutex when it is free, and panics
\* when it is poisoned
Lock(c) ==
    /\ listening
    /\ pc[c] = "lock"
    /\ lock = NoOne
    /\ IF poisoned
       THEN Panic(c)
       ELSE /\ lock' = c
            /\ pc' = [pc EXCEPT ![c] = "locked"]
            /\ UNCHANGED poisoned
    /\ UNCHANGED <<buffer, sock, closed, delivered, script, ret, got, partial, connVars,
                   db, hist, listening>>

\* a guard that lives on to the end of the loop body
GuardKept(c) == c

\* the holder of the mutex once the match arm that took it has ended
GuardAfterArm(c) == NoOne

\* an insert that keeps the value a key already has
InsertIfAbsent(store, key, val) ==
    IF store[key] = NoValue THEN [store EXCEPT ![key] = val] ELSE store

\* an insert that is lost
InsertLost(store, key, val) == store

\* an insert that stores a part of the value
InsertPartial(store, key, val) == [store EXCEPT ![key] = SubSeq(val, 1, Len(val) - 1)]

\* the store after db.insert(key, value)
Insert(store, key, val) == [store EXCEPT ![key] = val]

\* the response to a Get of key
Lookup(store, key) == IF store[key] # NoValue THEN Bulk(store[key]) ELSE Null

\* the match arm under the lock: the insert or the get, the response, and the
\* end of the arm, which drops the guard
StoreOp(c) ==
    /\ listening
    /\ pc[c] = "locked"
    /\ lock = c
    /\ IF cmd[c].k = "set"
       THEN /\ db' = Insert(db, cmd[c].key, cmd[c].val)
            /\ hist' = Append(hist, [key |-> cmd[c].key, val |-> cmd[c].val])
            /\ response' = [response EXCEPT ![c] = Simple(OkText)]
       ELSE /\ db' = db
            /\ hist' = hist
            /\ response' = [response EXCEPT ![c] = Lookup(db, cmd[c].key)]
    /\ mark' = [mark EXCEPT ![c] = Len(hist')]
    /\ lock' = GuardAfterArm(c)
    /\ pc' = [pc EXCEPT ![c] = "write"]
    /\ UNCHANGED <<buffer, sock, closed, delivered, script, ret, got, partial, cmd, replies,
                   wbuf, out, broken, poisoned, listening>>

\* write_frame up to its flush: the bytes of the response go to the BufWriter
Write(c) ==
    /\ listening
    /\ pc[c] = "write"
    /\ replies' = [replies EXCEPT ![c] = Append(@, response[c])]
    /\ IF WriteFrame(response[c]).r = "ok"
       THEN /\ wbuf' = [wbuf EXCEPT ![c] = @ \o WriteFrame(response[c]).bytes]
            /\ pc' = [pc EXCEPT ![c] = "flush"]
            /\ UNCHANGED <<lock, poisoned>>
       ELSE /\ wbuf' = wbuf
            /\ Panic(c)
    /\ UNCHANGED <<buffer, sock, closed, delivered, script, ret, got, partial, cmd, response,
                   mark, out, broken, db, hist, listening>>

\* a write to the stream fails: write_frame returns the error and process
\* panics on the unwrap
WriteErr(c) ==
    /\ listening
    /\ pc[c] = "write"
    /\ replies' = [replies EXCEPT ![c] = Append(@, response[c])]
    /\ broken' = [broken EXCEPT ![c] = TRUE]
    /\ Panic(c)
    /\ UNCHANGED <<buffer, sock, closed, delivered, script, ret, got, partial, cmd, response,
                   mark, wbuf, out, db, hist, listening>>

\* the flush succeeds: every buffered byte reaches the socket
FlushOk(c) ==
    /\ listening
    /\ pc[c] = "flush"
    /\ ~broken[c]
    /\ out' = [out EXCEPT ![c] = @ \o wbuf[c]]
    /\ wbuf' = [wbuf EXCEPT ![c] = <<>>]
    /\ pc' = [pc EXCEPT ![c] = "call"]
    /\ UNCHANGED <<buffer, sock, closed, delivered, script, ret, got, partial, cmd, response,
                   mark, replies, broken, storeVars, listening>>

\* the flush fails before the socket takes a byte, so the bytes stay in the
\* BufWriter; write_frame discards the error and returns Ok
FlushErr(c) ==
    /\ listening
    /\ pc[c] = "flush"
    /\ broken' = [broken EXCEPT ![c] = TRUE]
    /\ pc' = [pc EXCEPT ![c] = "call"]
    /\ UNCHANGED <<buffer, sock, closed, delivered, script, ret, got, partial, cmd, response,
                   mark, replies, wbuf, out, storeVars, listening>>

\* the awaits of process: where its future can be dropped
Suspensions == {"socket_read", "write", "flush"}

\* The task of c is dropped at an await, as the runtime does with every task
\* when it shuts down: its locals are dropped with it, a mutex guard among
\* them would be released without poisoning, and the bytes in the BufWriter
\* are lost with the Connection.
Drop(c) ==
    /\ pc[c] \in Suspensions
    /\ pc' = [pc EXCEPT ![c] = "dropped"]
    /\ lock' = IF lock = c THEN NoOne ELSE lock
    /\ UNCHANGED <<buffer, sock, closed, delivered, script, ret, got, partial, connVars,
                   db, poisoned, hist, listening>>

Next ==
    \E c \in Conns :
        \/ Drop(c)
        \/ Accept(c)
        \/ AcceptErr(c)
        \/ PeerSend(c)
        \/ ProcessCall(c)
        \/ ProcessRead(c)
        \/ ProcessEof(c)
        \/ ProcessReadErr(c)
        \/ Lock(c)
        \/ StoreOp(c)
        \/ Write(c)
        \/ WriteErr(c)
        \/ FlushOk(c)
        \/ FlushErr(c)

Spec == Init /\ [][Next]_vars

\* ----------------------------------------- the progress specification
\* Two accepted connections whose peers have sent all they will send for now
\* and keep their sockets open. The peer of the first has sent one or two
\* whole requests; the peer of the second has sent nothing, a part of a
\* request, or a whole request and a part of the next. The tasks are scheduled
\* fairly; reads, writes and flushes may fail.
LiveSet == Request(<<Bulk(SetName), Bulk(KeyA), Bulk(ValX)>>)
LiveGet == Request(<<Bulk(GetName), Bulk(KeyA)>>)

\* a request without its last byte
Cut(req) == SubSeq(req, 1, Len(req) - 1)

\* what a peer will send, and what it has sent
ServedStreams ==
    { [script |-> <<LiveSet>>, sock |-> LiveSet],
      [script |-> <<LiveSet, LiveGet>>, sock |-> LiveSet \o LiveGet] }

StalledStreams ==
    { [script |-> <<>>, sock |-> <<>>],
      [script |-> <<LiveGet>>, sock |-> Cut(LiveGet)],
      [script |-> <<LiveSet, LiveGet>>, sock |-> LiveSet \o Cut(LiveGet)] }

InitLive ==
    /\ \E s1 \in ServedStreams, s2 \in StalledStreams :
            /\ script = [c \in Conns |-> IF c = "c1" THEN s1.script ELSE s2.script]
            /\ sock = [c \in Conns |-> IF c = "c1" THEN s1.sock ELSE s2.sock]
    /\ pc = [c \in Conns |-> "call"]
    /\ InitRest

\* the steps a task takes when it is scheduled and its I/O goes through: the
\* steps of read_frame, and the steps from the lock to the flush
ReadSteps(c) == ProcessCall(c) \/ ProcessRead(c)

ServeSteps(c) == Lock(c) \/ StoreOp(c) \/ Write(c) \/ FlushOk(c)

TaskStep(c) == ReadSteps(c) \/ ServeSteps(c)

\* a step of read_frame is possible: the task is about to call it, or waits
\* at the socket read with bytes to read
ReadReady(c) == pc[c] = "call" \/ (pc[c] = "socket_read" /\ sock[c] # <<>>)

\* the failures of its I/O
TaskFault(c) ==
    \/ ProcessReadErr(c)
    \/ WriteErr(c)
    \/ FlushErr(c)

NextLive == \E c \in Conns : TaskStep(c) \/ TaskFault(c)

\* tokio polls every task that is ready: weak fairness of the steps of each
\* task. For the steps of read_frame it is WF_vars(ReadSteps(c)) written out,
\* with ReadReady(c) for ENABLED <<ReadSteps(c)>>_vars.
Fairness ==
    \A c \in Conns :
        /\ WF_vars(ServeSteps(c))
        /\ []<>(~ReadReady(c)) \/ []<><<ReadSteps(c)>>_vars

SpecLive == InitLive /\ [][NextLive]_vars /\ Fairness

\* ------------------------------------------- the codec specification
\* One connection writes a frame with write_frame and its peer, a second
\* connection, reads what reached the socket with read_frame, in every
\* chunking; or the reader is fed bytes that no write_frame produced.
Writer == "c1"
Reader == "c2"

\* Ok(()) of write_frame
WOk == [k |-> "ok"]

WriteZero == "failed to write whole buffer"

\* 999999999999, of twelve digits, and 1000000000000, of thirteen
Twelve9 == U64(9999, 99999999)
TenTo12 == U64(10000, 0)

CodecPool ==
    { Simple(OkText), Simple(<<>>), Error(<<69>>),
      Integer(Small(0)), Integer(Small(42)), Integer(U64(1, 5)), Integer(Twelve9),
      Integer(TenTo12), Integer(U64(12345, 67)),
      Bulk(<<>>), Bulk(ValX), Bulk(CRLF), Null,
      Array(<<>>), Array(<<Bulk(KeyA)>>) }

\* ":-42\r\n"
WireMinus42 == <<COLON, MINUS, ZERO + 4, ZERO + 2>> \o CRLF

\* "$-1\rX": a null whose line does not end
WireNullNoLf == <<DOLLAR, MINUS, ZERO + 1, CR, 88>>

\* ":1000000000000\r\n", and "$5\r\nx\r\n", a bulk shorter than its length
RawStreams ==
    { WireMinus42, WireNullNoLf, <<COLON>> \o DecU64(TenTo12) \o CRLF,
      <<DOLLAR, ZERO + 5>> \o CRLF \o ValX \o CRLF }

InitCodec ==
    /\ \/ \E f \in CodecPool :
            /\ response = [c \in Conns |-> IF c = Writer THEN f ELSE Null]
            /\ pc = [c \in Conns |-> IF c = Writer THEN "write" ELSE "idle"]
            /\ script = [c \in Conns |-> <<>>]
       \/ \E raw \in RawStreams :
            /\ response = [c \in Conns |-> Null]
            /\ pc = [c \in Conns |-> IF c = Writer THEN "unaccepted" ELSE "call"]
            /\ script = [c \in Conns |-> IF c = Reader THEN <<raw>> ELSE <<>>]
    /\ sock = [c \in Conns |-> Flatten(script[c])]
    /\ buffer = [c \in Conns |-> <<>>]
    /\ closed = [c \in Conns |-> FALSE]
    /\ delivered = [c \in Conns |-> 0]
    /\ ret = [c \in Conns |-> NoRet]
    /\ got = [c \in Conns |-> <<>>]
    /\ partial = [c \in Conns |-> FALSE]
    /\ cmd = [c \in Conns |-> NoCmd]
    /\ mark = [c \in Conns |-> 0]
    /\ replies = [c \in Conns |-> <<>>]
    /\ wbuf = [c \in Conns |-> <<>>]
    /\ out = [c \in Conns |-> <<>>]
    /\ broken = [c \in Conns |-> FALSE]
    /\ db = [k \in Keys |-> NoValue]
    /\ lock = NoOne
    /\ poisoned = FALSE
    /\ hist = <<>>
    /\ listening = TRUE

\* write_frame has ended on the writer: the reader starts on the bytes that
\* have reached the socket
Wire(bytes) ==
    /\ sock' = [sock EXCEPT ![Reader] = bytes]
    /\ script' = [script EXCEPT ![Reader] = IF bytes = <<>> THEN <<>> ELSE <<bytes>>]

\* write_frame up to its flush: the match on the frame. A write_decimal that
\* fails makes write_frame return its error, past the flush, and an Array
\* panics.
CodecWrite(c) ==
    /\ pc[c] = "write"
    /\ replies' = [replies EXCEPT ![c] = Append(@, response[c])]
    /\ wbuf' = [wbuf EXCEPT ![c] = @ \o WriteFrame(response[c]).bytes]
    /\ IF WriteFrame(response[c]).r = "ok"
       THEN /\ pc' = [pc EXCEPT ![c] = "flush"]
            /\ UNCHANGED <<ret, sock, script>>
       ELSE /\ pc' = [pc EXCEPT ![c] = IF WriteFrame(response[c]).r = "error"
                                        THEN "failed" ELSE "panicked",
                                ![Reader] = "call"]
            /\ ret' = [ret EXCEPT ![c] = IF WriteFrame(response[c]).r = "error"
                                          THEN RErr(WriteZero) ELSE @]
            /\ Wire(out[c])
    /\ UNCHANGED <<buffer, closed, delivered, got, partial, cmd, response, mark, out,
                   broken, storeVars, listening>>

\* the flush succeeds and write_frame returns Ok
CodecFlush(c) ==
    /\ pc[c] = "flush"
    /\ out' = [out EXCEPT ![c] = @ \o wbuf[c]]
    /\ wbuf' = [wbuf EXCEPT ![c] = <<>>]
    /\ ret' = [ret EXCEPT ![c] = WOk]
    /\ pc' = [pc EXCEPT ![c] = "written", ![Reader] = "call"]
    /\ Wire(out[c] \o wbuf[c])
    /\ UNCHANGED <<buffer, closed, delivered, got, partial, cmd, response, mark, replies,
                   broken, storeVars, listening>>

\* the flush fails with the bytes still in the BufWriter: the error is
\* discarded and write_frame returns Ok
CodecFlushErr(c) ==
    /\ pc[c] = "flush"
    /\ broken' = [broken EXCEPT ![c] = TRUE]
    /\ ret' = [ret EXCEPT ![c] = WOk]
    /\ pc' = [pc EXCEPT ![c] = "written", ![Reader] = "call"]
    /\ Wire(out[c])
    /\ UNCHANGED <<buffer, closed, delivered, got, partial, cmd, response, mark, replies,
                   wbuf, out, storeVars, listening>>

\* the socket read returns 0 once every byte that reached the socket has been
\* read
CodecEof(c) == sock[c] = <<>> /\ SocketEof(c)

NextCodec ==
    \/ CodecWrite(Writer)
    \/ CodecFlush(Writer)
    \/ CodecFlushErr(Writer)
    \/ CallReadFrame(Reader)
    \/ SocketRead(Reader)
    \/ CodecEof(Reader)
    \/ Caller(Reader)

SpecCodec == InitCodec /\ [][NextCodec]_vars

\* ------------------------------------------------ claims on read_frame
\* C1: under every split of the peer's valid frames into non-empty chunks,
\* each frame read_frame returns is the frame it returns when that frame's
\* whole encoding arrives in a single read; every frame whose bytes have all
\* been read is returned before the task waits on the socket again; and the
\* chunking itself never makes read_frame fail.
C1_IncrementalDelivery ==
    \A c \in Conns :
        /\ \A k \in 1 .. Len(got[c]) : RSome(got[c][k]) = ParseFrame(script[c][k]).res
        /\ (pc[c] = "returned" /\ ret[c].k = "some")
              => /\ Len(got[c]) < Len(script[c])
                 /\ ret[c] = ParseFrame(script[c][Len(got[c]) + 1]).res
        /\ pc[c] = "socket_read" => Len(got[c]) = FramesDelivered(c)
        /\ ret[c].k = "err" => (closed[c] /\ ~AtBoundary(c))

\* a frame that arrived in several reads has been returned
C1_Witness ==
    /\ pc["c1"] = "returned"
    /\ ret["c1"].k = "some"
    /\ partial["c1"]
    /\ ret["c1"].f.t = "Array"

\* C2: when the peer has closed after a strict, non-empty part of a frame,
\* read_frame never returns None, and what it returns once the buffered whole
\* frames are used up is the error "connection reset by peer".
C2_PartialFrameClose ==
    \A c \in Conns :
        (closed[c] /\ ~AtBoundary(c))
            => /\ ret[c].k # "none"
               /\ pc[c] = "finished" => ret[c] = RErr(ResetByPeer)

\* the peer closed inside a frame and read_frame has reported the reset
C2_Witness ==
    /\ closed["c1"]
    /\ ~AtBoundary("c1")
    /\ pc["c1"] = "finished"
    /\ ret["c1"] = RErr(ResetByPeer)

\* C3: when the peer has closed at a frame boundary (or before sending any
\* byte), read_frame returns no error, and once every delivered frame has been
\* returned the next call returns None.
C3_CleanClose ==
    \A c \in Conns :
        (closed[c] /\ AtBoundary(c))
            => /\ ret[c].k # "err"
               /\ pc[c] = "finished"
                    => (ret[c] = RNone /\ Len(got[c]) = FramesDelivered(c))

\* two frames were returned and then the clean end of the stream
C3_Witness ==
    /\ closed["c1"]
    /\ AtBoundary("c1")
    /\ pc["c1"] = "finished"
    /\ ret["c1"] = RNone
    /\ Len(got["c1"]) = 2

\* --------------------------------------------- claims on process
\* the bytes write_frame emits for the frames of fs, one after the other
RECURSIVE Written(_)
Written(fs) ==
    IF fs = <<>> THEN <<>> ELSE WriteFrame(Head(fs)).bytes \o Written(Tail(fs))

\* the value of the last of the first n inserts that is on key, NoValue when
\* none is
RECURSIVE LastSet(_, _, _)
LastSet(h, n, key) ==
    IF n = 0 THEN NoValue
    ELSE IF h[n].key = key THEN h[n].val
    ELSE LastSet(h, n - 1, key)

\* the values of the inserts on key from the n-th insert on
SetFrom(h, n, key) == {h[i].val : i \in {j \in n .. Len(h) : h[j].key = key}}

\* the request the task of c took last from read_frame
Current(c) == script[c][Len(got[c])]

BadRequests == ArityRequests \cup UnknownRequests \cup MalformedRequests

\* C4: whenever a task waits at a socket read, every request it has taken has
\* exactly one response frame, and all these frames are on the socket in
\* full, none of their bytes left in the BufWriter.
C4_StrictAlternation ==
    \A c \in Conns :
        pc[c] = "socket_read"
            => /\ Len(replies[c]) = Len(got[c])
               /\ wbuf[c] = <<>>
               /\ out[c] = Written(replies[c])

\* C5: the response to a Get of a key is Bulk(v) for the value v of the last
\* insert on that key applied before the lookup, by whatever connection, and
\* Null exactly when no insert on that key was applied before the lookup.
C5_GetResult ==
    \A c \in Conns :
        (cmd[c].k = "get" /\ pc[c] \notin {"lock", "locked"})
            => response[c] =
                  IF LastSet(hist, mark[c], cmd[c].key) = NoValue
                  THEN Null
                  ELSE Bulk(LastSet(hist, mark[c], cmd[c].key))

\* a Get answered with the second of two inserts on its key
C5_Witness ==
    /\ pc["c1"] = "flush"
    /\ cmd["c1"].k = "get"
    /\ response["c1"] = Bulk(ValY)
    /\ Len(hist) = 2
    /\ hist[1].val = ValX

\* C6 as stated: when the reply to a Set{key, value} starts being written it is
\* Simple("OK") and the store maps key to value.
C6_SetResultAsStated ==
    \A c \in Conns :
        (cmd[c].k = "set" /\ pc[c] = "write")
            => /\ response[c] = Simple(OkText)
               /\ db[cmd[c].key] = cmd[c].val

\* C6, amended: when the reply to a Set{key, value} starts being written it is
\* Simple("OK") and the insert has been applied: the store maps key to value
\* or to the value of a later insert on key, and a Get of key whose lookup
\* comes after the insert is answered with value or with the value of a later
\* insert on key.
C6_SetResult ==
    \A c \in Conns :
        (cmd[c].k = "set" /\ pc[c] \in {"write", "flush"})
            => /\ response[c] = Simple(OkText)
               /\ mark[c] \in 1 .. Len(hist)
               /\ hist[mark[c]] = [key |-> cmd[c].key, val |-> cmd[c].val]
               /\ db[cmd[c].key] \in SetFrom(hist, mark[c], cmd[c].key)
               /\ \A d \in Conns :
                     (/\ cmd[d].k = "get"
                      /\ cmd[d].key = cmd[c].key
                      /\ pc[d] \notin {"lock", "locked"}
                      /\ mark[d] >= mark[c])
                        => \E v \in SetFrom(hist, mark[c], cmd[c].key) :
                              response[d] = Bulk(v)

\* the reply to a Set of x starts being written when the store holds the y of
\* a later Set
C6_Witness ==
    /\ pc["c1"] = "write"
    /\ cmd["c1"] = CmdSet(KeyA, ValX)
    /\ db[KeyA] = ValY

\* C7: a task that waits at a socket read, a socket write or a flush does not
\* hold the mutex of the store; the mutex is held only for the one insert or
\* get of the match arm.
C7_LockScope ==
    \A c \in Conns :
        /\ pc[c] \in {"socket_read", "write", "flush"} => lock # c
        /\ lock = c => pc[c] = "locked"

\* one task is about to write while the other holds the mutex
C7_Witness ==
    /\ pc["c1"] = "write"
    /\ pc["c2"] = "locked"
    /\ lock = "c2"

\* the step is the failure of the task of c
Fails(c) == pc[c] # "panicked" /\ pc'[c] = "panicked"

\* C8: the step in which the task of a connection fails changes nothing of
\* the other connections, neither the store nor the mutex, which it does not
\* hold, nor the accept loop; and the mutex is never poisoned, so no later
\* lock panics.
C8_FailureIsolation ==
    /\ [](~poisoned)
    /\ [][\A c \in Conns :
            Fails(c)
                => /\ \A d \in Conns \ {c} :
                        /\ pc'[d] = pc[d]
                        /\ buffer'[d] = buffer[d]
                        /\ wbuf'[d] = wbuf[d]
                        /\ out'[d] = out[d]
                        /\ response'[d] = response[d]
                   /\ db' = db
                   /\ lock # c
                   /\ lock' = lock
                   /\ listening' = listening]_vars

\* one task has panicked on its first request and the other is being served
C8_Witness ==
    /\ pc["c1"] = "panicked"
    /\ Len(script["c1"]) = 1
    /\ Len(script["c2"]) = 2
    /\ pc["c2"] = "flush"
    /\ response["c2"] = Bulk(ValX)
    /\ listening

\* C9: the step in which a task takes a get or set request of a wrong arity
\* makes it panic and leaves the store as it is; and every change of the
\* store is the insert of a task whose request is none of these.
C9_ArityValidation ==
    /\ [][\A c \in Conns :
            (got'[c] # got[c] /\ script[c][Len(got'[c])] \in ArityRequests)
                => /\ pc'[c] = "panicked"
                   /\ cmd'[c] = cmd[c]
                   /\ db' = db
                   /\ hist' = hist]_vars
    /\ [][(db' # db \/ hist' # hist)
            => \E c \in Conns : pc[c] = "locked" /\ Current(c) \in GoodRequests]_vars

\* a set with one argument came after a served set, and the store is as the
\* served set left it
C9_Witness ==
    /\ pc["c1"] = "panicked"
    /\ Len(got["c1"]) = 2
    /\ Current("c1") = Request(<<Bulk(SetName), Bulk(KeyA)>>)
    /\ hist = <<[key |-> KeyA, val |-> ValY]>>
    /\ db[KeyA] = ValY

\* C10: a task whose last request is malformed, of a wrong arity or of an
\* unknown command, and that no longer waits for its bytes (nor was dropped
\* while it waited), has panicked with
\* no response frame for that request; and a panicked task reads and writes
\* nothing more.
C10_ProtocolErrorsFatal ==
    /\ [](\A c \in Conns :
            (/\ script[c] # <<>>
             /\ script[c][Len(script[c])] \in BadRequests
             /\ pc[c] \notin {"socket_read", "dropped"})
                => /\ pc[c] = "panicked"
                   /\ Len(replies[c]) < Len(script[c])
                   /\ out[c] \o wbuf[c] = Written(replies[c]))
    /\ [][\A c \in Conns :
            pc[c] = "panicked"
                => /\ pc'[c] = "panicked"
                   /\ delivered'[c] = delivered[c]
                   /\ buffer'[c] = buffer[c]
                   /\ replies'[c] = replies[c]
                   /\ wbuf'[c] = wbuf[c]
                   /\ out'[c] = out[c]]_vars

\* after a served set, an invalid type byte made the task panic with bytes of
\* the peer still unread
C10_Witness ==
    /\ pc["c1"] = "panicked"
    /\ Len(script["c1"]) = 2
    /\ script["c1"][2] \in MalformedRequests
    /\ sock["c1"] # <<>>
    /\ out["c1"] = WriteFrame(Simple(OkText)).bytes

\* ------------------------------------------------- claims on the codec
\* C11: read_frame never returns the Incomplete condition ("stream ended
\* early") to its caller; with no complete frame in the buffer it goes to the
\* socket read, and what it returns is a frame, None or another error.
C11_IncompleteNeverSurfaced ==
    \A c \in Conns :
        /\ ret[c] # RErr(EndedEarly)
        /\ (pc[c] = "socket_read" /\ ~closed[c]) => ParseFrame(buffer[c]).res = RNone

\* C12: for every frame that is no Array, write_frame succeeds unless the
\* socket fails, and the bytes it puts on the socket make read_frame return a
\* frame equal to the one written and leave the read buffer empty.
C12_RoundTrip ==
    (response[Writer].t # "Array" /\ pc[Writer] \notin {"write", "flush", "unaccepted"}
        /\ ~broken[Writer])
        => /\ ret[Writer] = WOk
           /\ (pc[Reader] = "returned" /\ got[Reader] = <<>>)
                 => (ret[Reader] = RSome(response[Writer]) /\ buffer[Reader] = <<>>)
           /\ pc[Reader] = "finished"
                 => (got[Reader] = <<response[Writer]>> /\ ret[Reader] = RNone)

\* the i64 -42
MinusFortyTwo == U64(0, -42)

\* C13: the bytes ":-42\r\n" decode to Integer(-42).
C13_SignedRoundTrip ==
    (script[Reader] = <<WireMinus42>> /\ pc[Reader] = "returned" /\ got[Reader] = <<>>)
        => ret[Reader] = RSome(Integer(MinusFortyTwo))

\* C14: when write_frame has returned Ok no byte of the frame is left in the
\* BufWriter, and when the flush has failed write_frame has returned an error.
C14_FlushReported ==
    \A c \in Conns :
        pc[c] = "written"
            => /\ ret[c] = WOk => wbuf[c] = <<>>
               /\ broken[c] => ret[c].k = "err"

\* C15: write_frame of an Array panics with no byte of it handed to the
\* stream: nothing is in the BufWriter, nothing is on the socket, and the peer
\* reads nothing.
C15_ArrayFailsFast ==
    response[Writer].t = "Array"
        => /\ pc[Writer] \in {"write", "panicked"}
           /\ wbuf[Writer] = <<>>
           /\ out[Writer] = <<>>
           /\ script[Reader] = <<>>
           /\ got[Reader] = <<>>

\* write_frame has panicked on an array of one bulk and the peer has read a
\* clean end of stream
C15_Witness ==
    /\ response[Writer] = Array(<<Bulk(KeyA)>>)
    /\ pc[Writer] = "panicked"
    /\ replies[Writer] = <<Array(<<Bulk(KeyA)>>)>>
    /\ pc[Reader] = "finished"
    /\ ret[Reader] = RNone

\* C20: write_frame of an Integer whose decimal text is longer than 12
\* characters returns an I/O error, with the type byte alone in the BufWriter
\* and no byte on the socket; of an Integer of at most 12 digits, and of a
\* Bulk, it emits exactly the decimal text of the value, or of the length,
\* followed by CRLF.
C20_DecimalWidth ==
    LET f == response[Writer]
        emitted == out[Writer] \o wbuf[Writer]
    IN  /\ (f.t = "Integer" /\ pc[Writer] # "write")
              => IF Len(DecU64(f.v)) > DecimalBuf
                 THEN /\ pc[Writer] = "failed"
                      /\ ret[Writer] = RErr(WriteZero)
                      /\ emitted = <<COLON>>
                      /\ out[Writer] = <<>>
                      /\ got[Reader] = <<>>
                 ELSE /\ pc[Writer] \in {"flush", "written"}
                      /\ emitted = <<COLON>> \o DecU64(f.v) \o CRLF
        /\ (f.t = "Bulk" /\ pc[Writer] \notin {"write", "unaccepted"})
              => emitted = <<DOLLAR>> \o Dec(Len(f.v)) \o CRLF \o f.v \o CRLF

\* 1000000000000 has failed with no digit emitted, and the peer has read a
\* clean end of stream
C20_Witness ==
    /\ response[Writer] = Integer(TenTo12)
    /\ pc[Writer] = "failed"
    /\ wbuf[Writer] = <<COLON>>
    /\ pc[Reader] = "finished"
    /\ ret[Reader] = RNone

\* ------------------------------------------ claims on the read buffer
\* C18: a turn of the loop of read_frame in which parse_frame finds no
\* complete frame leaves the buffer as parse_frame found it, byte for byte;
\* a turn in which it returns a frame removes from the front of the buffer
\* exactly the encoding of that frame and leaves the bytes after it as they
\* were.
C18_BufferEffect ==
    [][\A c \in Conns :
         LET seen == buffer[c] \o SubSeq(sock[c], 1, delivered'[c] - delivered[c])
         IN  (pc[c] \in {"call", "socket_read"} /\ closed'[c] = closed[c]
                 /\ pc'[c] \in {"socket_read", "returned"})
                => /\ ret'[c] = NoRet => buffer'[c] = seen
                   /\ ret'[c].k = "some" => seen = Encode(ret'[c].f) \o buffer'[c]]_vars

\* a bulk has been returned and the two bytes read after it are in the buffer
C18_Witness ==
    /\ pc["c1"] = "returned"
    /\ ret["c1"] = RSome(Bulk(CRLF))
    /\ buffer["c1"] = <<DOLLAR, MINUS>>

\* C19: the frames read_frame has returned are the peer's frames, in order
\* and each once; the task waits at a socket read only when every frame whose
\* bytes have all been read has been returned; and after a close at a frame
\* boundary read_frame has returned every frame and then None.
C19_InOrderLossless ==
    \A c \in Conns :
        /\ Len(got[c]) <= Len(script[c])
        /\ \A k \in 1 .. Len(got[c]) : Encode(got[c][k]) = script[c][k]
        /\ pc[c] = "socket_read"
              => (Len(got[c]) = FramesDelivered(c) /\ ParseFrame(buffer[c]).res = RNone)
        /\ (pc[c] = "finished" /\ closed[c] /\ AtBoundary(c))
              => (ret[c] = RNone /\ Len(got[c]) = Len(script[c]))

\* an array and then a null have been returned, and then None
C19_Witness ==
    /\ pc["c1"] = "finished"
    /\ ret["c1"] = RNone
    /\ got["c1"] = <<Array(<<Bulk(KeyA), Integer(Small(1))>>), Null>>
    /\ delivered["c1"] = SumLen(script["c1"], 2)

\* ------------------------------------------------ claims on the tasks
\* C16: the step that drops a task at an await changes neither the store nor
\* the mutex, which the task does not hold; and with a task dropped, the
\* mutex is not held by it nor poisoned, the store is what the inserts applied
\* so far make it, each of them whole, and the last Set the task took is
\* applied: the store maps its key to its value or to the value of a later
\* insert on that key.
C16_CancellationSafety ==
    /\ [](\A c \in Conns :
            pc[c] = "dropped"
                => /\ lock # c
                   /\ ~poisoned
                   /\ \A k \in Keys : db[k] = LastSet(hist, Len(hist), k)
                   /\ cmd[c].k = "set"
                         => /\ mark[c] \in 1 .. Len(hist)
                            /\ hist[mark[c]] = [key |-> cmd[c].key, val |-> cmd[c].val]
                            /\ db[cmd[c].key] \in SetFrom(hist, mark[c], cmd[c].key))
    /\ [][\A c \in Conns :
            (pc[c] # "dropped" /\ pc'[c] = "dropped")
                => (lock # c /\ lock' = lock /\ db' = db /\ hist' = hist)]_vars

\* a task was dropped at the flush of the reply to its Set, and the store
\* holds the value
C16_Witness ==
    /\ pc["c1"] = "dropped"
    /\ cmd["c1"] = CmdSet(KeyA, ValX)
    /\ wbuf["c1"] = WriteFrame(Simple(OkText)).bytes
    /\ out["c1"] = <<>>
    /\ db[KeyA] = ValX
    /\ lock = NoOne

\* the requests of c whose bytes the peer has all sent
Complete(c) ==
    Cardinality({k \in 1 .. Len(script[c]) :
                    SumLen(script[c], k) <= delivered[c] + Len(sock[c])})

\* every request the peer of c has sent in full has its response on the socket
Answered(c) ==
    /\ Len(replies[c]) = Complete(c)
    /\ wbuf[c] = <<>>
    /\ out[c] = Written(replies[c])

\* the socket of c itself has failed
IoFailed(c) == broken[c] \/ pc[c] = "panicked"

\* C17: under fair scheduling every connection eventually has the response to
\* each request its peer has sent in full written to its socket, unless its
\* own socket fails, whatever the other connection does: stalled in the
\* middle of a request or silent.
C17_NoMutualBlocking == \A c \in Conns : <>(Answered(c) \/ IoFailed(c))

\* the Set of one connection is answered while the other waits with a part of
\* a request in its buffer and nothing more to read
C17_Witness ==
    /\ Complete("c1") = 1
    /\ Answered("c1")
    /\ out["c1"] = WriteFrame(Simple(OkText)).bytes
    /\ pc["c2"] = "socket_read"
    /\ buffer["c2"] # <<>>
    /\ sock["c2"] = <<>>

=============================================================================
